---- MODULE Spec2Model ----
(***************************************************************************)
(* Incident reporting server (src/app.py): accounts and roles, the         *)
(* permission decorators, login sessions, the forced password change,      *)
(* password-reset tokens, the e-mail configuration with the messages sent  *)
(* under it, and the incident reports with their corrective actions.       *)
(*                                                                         *)
(* Text (usernames, e-mail addresses, passwords) is a sequence of          *)
(* characters; a character is a number, 0 being the blank that str.strip() *)
(* removes.  The store holds committed rows only.  The two handlers that   *)
(* read the store, decide, and write later (forgot_password and            *)
(* reset_password) are split at the point where their transaction commits; *)
(* every other handler is one step.                                        *)
(***************************************************************************)
EXTENDS Integers, Sequences, FiniteSets, TLC

VARIABLES
    users,      \* table user: id -> row
    tokens,     \* table password_reset_token: sequence of rows, the token value is the index
    sessions,   \* user ids held by login cookies (flask_login session)
    now,        \* datetime.utcnow(), in hours
    reqs,       \* requests between their reads and their commit: slot -> request
    completed,  \* per token value, the number of "Password reset completed" log lines
    incidents,  \* table incident: sequence of rows, the id is the index
    email_config, \* table email_config: its first row, or NoConfig
    outbox,     \* the messages the last step handed to the mail transport
    login_checks_active, \* whether UserMixin.is_authenticated answers with is_active
    last        \* the response of the last step; for a submission, with its form

vars == <<users, tokens, sessions, now, reqs, completed, incidents, email_config, outbox,
          login_checks_active, last>>

----------------------------------------------------------------------------
(* Bounds *)

MaxUsers == 2
MaxTokens == 2
MaxTime == 2
MaxInFlight == 2
MaxIncidents == 1
NumSalts == 1

(* Program constants *)

TOKEN_HOURS == 1
MIN_PASSWORD_LENGTH == 6

----------------------------------------------------------------------------
(* Text *)

RECURSIVE lstrip(_)
lstrip(s) == IF s # <<>> /\ Head(s) = 0 THEN lstrip(Tail(s)) ELSE s

RECURSIVE rstrip(_)
rstrip(s) == IF s # <<>> /\ s[Len(s)] = 0 THEN rstrip(SubSeq(s, 1, Len(s) - 1)) ELSE s

strip(s) == rstrip(lstrip(s))

ADMIN_USERNAME == <<1>>
ADMIN_EMAIL == <<1, 3>>
ADMIN_PASSWORD == <<1, 2, 1, 2, 1, 1, 2, 2>>

\* generate_temporary_password: twelve characters, none of them blank
TemporaryPasswords == { <<2, 1, 2, 1, 2, 1, 2, 1, 2, 1, 2, 1>> }

NoEmail == <<>>

Roles == {"master_admin", "incident_manager"}

\* What callers type.
UsernameInputs == { <<0>>, <<1>>, <<2>>, <<0, 2>> }
EmailInputs == { <<0>>, <<1, 3>>, <<2, 3>> }
RoleInputs == Roles \cup {"superuser"}
PasswordInputs == { <<0>>, <<1, 2>>, <<0, 2, 2, 1, 1, 2, 2>> }
LoginPasswords == { ADMIN_PASSWORD, <<2, 2, 1, 1, 2, 2>>, <<0, 2, 2, 1, 1, 2, 2>> }
                      \cup TemporaryPasswords

Salts == 1 .. NumSalts

----------------------------------------------------------------------------
(* werkzeug.security, as User.set_password / User.check_password use it:   *)
(* the hash is the salt and a digest of salt and password; the digest is    *)
(* one-to-one on the texts of this model.                                   *)

RECURSIVE Digest(_)
Digest(s) == IF s = <<>> THEN 0 ELSE (Head(s) + 1) + 4 * Digest(Tail(s))

generate_password_hash(password, salt) ==
    [salt |-> salt, digest |-> Digest(<<salt>> \o password)]

check_password_hash(pwhash, password) ==
    Digest(<<pwhash.salt>> \o password) = pwhash.digest

----------------------------------------------------------------------------
(* class User *)

is_master_admin(u) == u.role = "master_admin"

is_incident_manager(u) == u.role = "incident_manager"

\* can_manage_users granting the capability to every role
can_manage_users_any_role(u) == is_master_admin(u) \/ is_incident_manager(u)

can_manage_users(u) == is_master_admin(u)

can_manage_email_config(u) == is_master_admin(u)

can_view_dashboard(u) == is_master_admin(u) \/ is_incident_manager(u)

can_manage_incidents(u) == is_master_admin(u) \/ is_incident_manager(u)

UserIds == 1 .. MaxUsers

\* load_user: the cookie's id names a row or nobody.  UserMixin.is_authenticated
\* is True in Flask-Login before 0.6 and self.is_active, here the column, from
\* 0.6 on; the repository names no version, so either can be the one installed.
is_authenticated(a) ==
    /\ a \in sessions
    /\ a \in DOMAIN users
    /\ login_checks_active => users[a].is_active

\* A request comes with a login cookie or with none (0).
Actors == sessions \cup {0}

----------------------------------------------------------------------------
(* Permission decorators *)

login_required(a) == IF is_authenticated(a) THEN "allowed" ELSE "login_redirect"

master_admin_required(a) ==
    IF ~is_authenticated(a) THEN "login_redirect"
    ELSE IF ~can_manage_users(users[a]) THEN "denied"
    ELSE "allowed"

incident_manager_required(a) ==
    IF ~is_authenticated(a) THEN "login_redirect"
    ELSE IF ~can_manage_incidents(users[a]) THEN "denied"
    ELSE "allowed"

email_config_required(a) ==
    IF ~is_authenticated(a) THEN "login_redirect"
    ELSE IF ~can_manage_email_config(users[a]) THEN "denied"
    ELSE "allowed"

----------------------------------------------------------------------------
(* Responses *)

Response(op, actor, target, outcome) ==
    [op |-> op, actor |-> actor, target |-> target, outcome |-> outcome]

\* The answer to a submission, kept together with the form it answers
SubmitResponse(form, target, outcome) ==
    [op |-> "submit_incident", actor |-> 0, target |-> target, outcome |-> outcome,
     form |-> form]

NoReq == [kind |-> "none"]

----------------------------------------------------------------------------
(* class EmailConfig and the send_* helpers.  Each helper reads the first   *)
(* EmailConfig row and returns False without sending when there is none or  *)
(* it is not active; with an active row the transport may still fail.       *)

NoConfig == [saved |-> FALSE]

MailEnabled == email_config # NoConfig /\ email_config.is_active

Message(kind, to) == [kind |-> kind, to |-> to]

\* What a helper can return: True only when mail is enabled.
SendResults == IF MailEnabled THEN BOOLEAN ELSE {FALSE}

----------------------------------------------------------------------------
(* Startup block: the tables exist and the default admin account is there. *)

Init ==
    /\ login_checks_active \in BOOLEAN
    /\ users = (1 :> [username |-> ADMIN_USERNAME,
                      email |-> ADMIN_EMAIL,
                      password_hash |-> generate_password_hash(ADMIN_PASSWORD, 1),
                      is_active |-> TRUE,
                      must_change_password |-> FALSE,
                      role |-> "master_admin"])
    /\ tokens = <<>>
    /\ sessions = {}
    /\ now = 0
    /\ reqs = [s \in 1 .. MaxInFlight |-> NoReq]
    /\ completed = [t \in 1 .. MaxTokens |-> 0]
    /\ incidents = <<>>
    /\ email_config = NoConfig
    /\ outbox = {}
    /\ last = Response("startup", 0, 0, "ok")

----------------------------------------------------------------------------
(* The clock *)

Tick ==
    /\ now < MaxTime
    /\ now' = now + 1
    /\ last' = Response("tick", 0, 0, "ok")
    /\ UNCHANGED <<login_checks_active, users, tokens, sessions, reqs, completed, incidents, email_config>>
    /\ outbox' = {}

----------------------------------------------------------------------------
(* admin_login, POST *)

\* The account a username names, 0 for none (usernames are unique).
Named(username) ==
    IF \E i \in DOMAIN users : users[i].username = username
    THEN CHOOSE i \in DOMAIN users : users[i].username = username
    ELSE 0

\* admin_login without the is_active filter
admin_login_req_inactive_too(username, password) ==
    LET found == { i \in DOMAIN users : users[i].username = username }
    IN  /\ IF \E i \in found : check_password_hash(users[i].password_hash, password)
           THEN LET i == CHOOSE i \in found : TRUE
                IN  /\ sessions' = sessions \cup {i}
                    /\ last' = Response("admin_login", 0, i,
                                   IF users[i].must_change_password
                                   THEN "change_password_required" ELSE "ok")
           ELSE /\ sessions' = sessions
                /\ last' = Response("admin_login", 0, Named(username), "invalid_credentials")
        /\ UNCHANGED <<login_checks_active, users, tokens, now, reqs, completed, incidents, email_config>>
        /\ outbox' = {}

admin_login_req(username, password) ==
    LET found == { i \in DOMAIN users :
                     users[i].username = username /\ users[i].is_active }
    IN  /\ IF \E i \in found : check_password_hash(users[i].password_hash, password)
           THEN LET i == CHOOSE i \in found : TRUE
                IN  /\ sessions' = sessions \cup {i}
                    /\ last' = Response("admin_login", 0, i,
                                   IF users[i].must_change_password
                                   THEN "change_password_required" ELSE "ok")
           ELSE /\ sessions' = sessions
                /\ last' = Response("admin_login", 0, Named(username), "invalid_credentials")
        /\ UNCHANGED <<login_checks_active, users, tokens, now, reqs, completed, incidents, email_config>>
        /\ outbox' = {}

admin_login ==
    \E username \in UsernameInputs, password \in LoginPasswords :
        admin_login_req(username, password)

----------------------------------------------------------------------------
(* admin_logout *)

admin_logout ==
    \E a \in Actors :
        /\ IF login_required(a) = "allowed"
           THEN /\ sessions' = sessions \ {a}
                /\ last' = Response("admin_logout", a, a, "ok")
           ELSE /\ sessions' = sessions
                /\ last' = Response("admin_logout", a, a, login_required(a))
        /\ UNCHANGED <<login_checks_active, users, tokens, now, reqs, completed, incidents, email_config>>
        /\ outbox' = {}

----------------------------------------------------------------------------
(* change_password_required, POST: the mandatory change of one's own        *)
(* password.  The password is taken as typed (no strip).                    *)

change_password_required_req(a, new_password, confirm_password, salt) ==
    /\ IF login_required(a) # "allowed"
       THEN /\ users' = users
            /\ last' = Response("change_password_required", a, a, login_required(a))
       ELSE IF new_password = <<>> \/ Len(new_password) < MIN_PASSWORD_LENGTH
       THEN /\ users' = users
            /\ last' = Response("change_password_required", a, a, "weak_password")
       ELSE IF new_password # confirm_password
       THEN /\ users' = users
            /\ last' = Response("change_password_required", a, a, "mismatch")
       ELSE /\ users' = [users EXCEPT
                            ![a].password_hash = generate_password_hash(new_password, salt),
                            ![a].must_change_password = FALSE]
            /\ last' = Response("change_password_required", a, a, "ok")
    /\ UNCHANGED <<login_checks_active, tokens, sessions, now, reqs, completed, incidents, email_config>>
    /\ outbox' = {}

change_password_required ==
    \E a \in Actors, new_password \in PasswordInputs,
       confirm_password \in PasswordInputs, salt \in Salts :
        change_password_required_req(a, new_password, confirm_password, salt)

----------------------------------------------------------------------------
(* Pages and queries behind a permission decorator.  They read only.        *)

Page(op, a, gate) ==
    /\ last' = Response(op, a, 0, IF gate = "allowed" THEN "ok" ELSE gate)
    /\ UNCHANGED <<login_checks_active, users, tokens, sessions, now, reqs, completed, incidents, email_config>>
    /\ outbox' = {}

admin_dashboard == \E a \in Actors : Page("admin_dashboard", a, incident_manager_required(a))

export_incidents == \E a \in Actors : Page("export_incidents", a, incident_manager_required(a))

admin_users == \E a \in Actors : Page("admin_users", a, master_admin_required(a))

admin_email_config == \E a \in Actors : Page("admin_email_config", a, email_config_required(a))

----------------------------------------------------------------------------
(* User management *)

\* The row id the store gives a new user: one past the highest id in use.
NextUserId == IF DOMAIN users = {} THEN 1
              ELSE (CHOOSE i \in DOMAIN users : \A j \in DOMAIN users : j <= i) + 1

\* add_user without the check that the e-mail address is not yet registered
add_user_req_no_email_check(a, username_in, email_in, role, temporary_password, salt, email_sent) ==
    LET username == strip(username_in)
        email == strip(email_in)
        Refuse(outcome) == /\ users' = users
                           /\ outbox' = {}
                           /\ last' = Response("add_user", a, 0, outcome)
    IN  /\ IF master_admin_required(a) # "allowed" THEN Refuse(master_admin_required(a))
           ELSE IF username = <<>> THEN Refuse("username_required")
           ELSE IF email = <<>> THEN Refuse("email_required")
           ELSE IF role \notin Roles THEN Refuse("invalid_role")
           ELSE IF \E i \in DOMAIN users : users[i].username = username
           THEN Refuse("duplicate_username")
           ELSE /\ NextUserId <= MaxUsers
                /\ users' = users @@ (NextUserId :>
                      [username |-> username,
                       email |-> email,
                       password_hash |-> generate_password_hash(temporary_password, salt),
                       is_active |-> TRUE,
                       must_change_password |-> TRUE,
                       role |-> role])
                /\ email_sent \in SendResults
                /\ outbox' = IF email_sent THEN {Message("welcome", email)} ELSE {}
                /\ last' = Response("add_user", a, NextUserId,
                               IF email_sent THEN "ok" ELSE "ok_mail_failed")
        /\ UNCHANGED <<login_checks_active, tokens, sessions, now, reqs, completed, incidents, email_config>>

add_user_req(a, username_in, email_in, role, temporary_password, salt, email_sent) ==
    LET username == strip(username_in)
        email == strip(email_in)
        Refuse(outcome) == /\ users' = users
                           /\ outbox' = {}
                           /\ last' = Response("add_user", a, 0, outcome)
    IN  /\ IF master_admin_required(a) # "allowed" THEN Refuse(master_admin_required(a))
           ELSE IF username = <<>> THEN Refuse("username_required")
           ELSE IF email = <<>> THEN Refuse("email_required")
           ELSE IF role \notin Roles THEN Refuse("invalid_role")
           ELSE IF \E i \in DOMAIN users : users[i].username = username
           THEN Refuse("duplicate_username")
           ELSE IF \E i \in DOMAIN users : users[i].email = email
           THEN Refuse("duplicate_email")
           ELSE /\ NextUserId <= MaxUsers
                /\ users' = users @@ (NextUserId :>
                      [username |-> username,
                       email |-> email,
                       password_hash |-> generate_password_hash(temporary_password, salt),
                       is_active |-> TRUE,
                       must_change_password |-> TRUE,
                       role |-> role])
                /\ email_sent \in SendResults
                /\ outbox' = IF email_sent THEN {Message("welcome", email)} ELSE {}
                /\ last' = Response("add_user", a, NextUserId,
                               IF email_sent THEN "ok" ELSE "ok_mail_failed")
        /\ UNCHANGED <<login_checks_active, tokens, sessions, now, reqs, completed, incidents, email_config>>

\* A request its decorator refuses is answered before anything of it is read:
\* what it carries makes no difference, and one value stands for all.
ReadBehind(gate, inputs) ==
    IF gate = "allowed" THEN inputs ELSE {CHOOSE x \in inputs : TRUE}

add_user ==
    \E a \in Actors :
        \E username_in \in ReadBehind(master_admin_required(a), UsernameInputs),
           email_in \in ReadBehind(master_admin_required(a), EmailInputs),
           role \in ReadBehind(master_admin_required(a), RoleInputs),
           temporary_password \in TemporaryPasswords, salt \in Salts,
           email_sent \in ReadBehind(master_admin_required(a), SendResults) :
            add_user_req(a, username_in, email_in, role, temporary_password, salt, email_sent)

\* toggle_user without the check that the target is not the caller
toggle_user_req_no_self_check(a, user_id) ==
    LET Refuse(outcome) == /\ users' = users
                           /\ last' = Response("toggle_user", a, user_id, outcome)
    IN  /\ IF master_admin_required(a) # "allowed" THEN Refuse(master_admin_required(a))
           ELSE IF user_id \notin DOMAIN users THEN Refuse("not_found")
           ELSE /\ users' = [users EXCEPT ![user_id].is_active = ~users[user_id].is_active]
                /\ last' = Response("toggle_user", a, user_id, "ok")
        /\ UNCHANGED <<login_checks_active, tokens, sessions, now, reqs, completed, incidents, email_config>>
        /\ outbox' = {}

toggle_user_req(a, user_id) ==
    LET Refuse(outcome) == /\ users' = users
                           /\ last' = Response("toggle_user", a, user_id, outcome)
    IN  /\ IF master_admin_required(a) # "allowed" THEN Refuse(master_admin_required(a))
           ELSE IF user_id \notin DOMAIN users THEN Refuse("not_found")
           ELSE IF user_id = a THEN Refuse("self_modification")
           ELSE /\ users' = [users EXCEPT ![user_id].is_active = ~users[user_id].is_active]
                /\ last' = Response("toggle_user", a, user_id, "ok")
        /\ UNCHANGED <<login_checks_active, tokens, sessions, now, reqs, completed, incidents, email_config>>
        /\ outbox' = {}

toggle_user == \E a \in Actors, user_id \in UserIds : toggle_user_req(a, user_id)

\* change_user_password without the check that the target is not the caller
change_user_password_req_no_self_check(a, user_id, password_in, salt) ==
    LET new_password == strip(password_in)
        Refuse(outcome) == /\ users' = users
                           /\ last' = Response("change_user_password", a, user_id, outcome)
    IN  /\ IF master_admin_required(a) # "allowed" THEN Refuse(master_admin_required(a))
           ELSE IF user_id \notin DOMAIN users THEN Refuse("not_found")
           ELSE IF new_password = <<>> THEN Refuse("password_required")
           ELSE IF Len(new_password) < MIN_PASSWORD_LENGTH THEN Refuse("weak_password")
           ELSE /\ users' = [users EXCEPT ![user_id].password_hash =
                                 generate_password_hash(new_password, salt)]
                /\ last' = Response("change_user_password", a, user_id, "ok")
        /\ UNCHANGED <<login_checks_active, tokens, sessions, now, reqs, completed, incidents, email_config>>
        /\ outbox' = {}

\* The administrative password change; the password is stripped first.
change_user_password_req(a, user_id, password_in, salt) ==
    LET new_password == strip(password_in)
        Refuse(outcome) == /\ users' = users
                           /\ last' = Response("change_user_password", a, user_id, outcome)
    IN  /\ IF master_admin_required(a) # "allowed" THEN Refuse(master_admin_required(a))
           ELSE IF user_id \notin DOMAIN users THEN Refuse("not_found")
           ELSE IF user_id = a THEN Refuse("self_modification")
           ELSE IF new_password = <<>> THEN Refuse("password_required")
           ELSE IF Len(new_password) < MIN_PASSWORD_LENGTH THEN Refuse("weak_password")
           ELSE /\ users' = [users EXCEPT ![user_id].password_hash =
                                 generate_password_hash(new_password, salt)]
                /\ last' = Response("change_user_password", a, user_id, "ok")
        /\ UNCHANGED <<login_checks_active, tokens, sessions, now, reqs, completed, incidents, email_config>>
        /\ outbox' = {}

change_user_password ==
    \E a \in Actors, user_id \in UserIds, password_in \in PasswordInputs, salt \in Salts :
        change_user_password_req(a, user_id, password_in, salt)

change_user_role_req(a, user_id, new_role) ==
    LET Refuse(outcome) == /\ users' = users
                           /\ last' = Response("change_user_role", a, user_id, outcome)
    IN  /\ IF master_admin_required(a) # "allowed" THEN Refuse(master_admin_required(a))
           ELSE IF user_id \notin DOMAIN users THEN Refuse("not_found")
           ELSE IF user_id = a THEN Refuse("self_modification")
           ELSE IF new_role = "" THEN Refuse("role_required")
           ELSE IF new_role \notin Roles THEN Refuse("invalid_role")
           ELSE IF new_role = users[user_id].role THEN Refuse("same_role")
           ELSE /\ users' = [users EXCEPT ![user_id].role = new_role]
                /\ last' = Response("change_user_role", a, user_id, "ok")
        /\ UNCHANGED <<login_checks_active, tokens, sessions, now, reqs, completed, incidents, email_config>>
        /\ outbox' = {}

change_user_role ==
    \E a \in Actors, user_id \in UserIds, new_role \in RoleInputs :
        change_user_role_req(a, user_id, new_role)

\* Only the user row goes; rows of other tables that name it stay.
delete_user_req(a, user_id) ==
    LET Refuse(outcome) == /\ users' = users
                           /\ last' = Response("delete_user", a, user_id, outcome)
    IN  /\ IF master_admin_required(a) # "allowed" THEN Refuse(master_admin_required(a))
           ELSE IF user_id \notin DOMAIN users THEN Refuse("not_found")
           ELSE IF user_id = a THEN Refuse("self_modification")
           ELSE /\ users' = [i \in DOMAIN users \ {user_id} |-> users[i]]
                /\ last' = Response("delete_user", a, user_id, "ok")
        /\ UNCHANGED <<login_checks_active, tokens, sessions, now, reqs, completed, incidents, email_config>>
        /\ outbox' = {}

delete_user == \E a \in Actors, user_id \in UserIds : delete_user_req(a, user_id)

----------------------------------------------------------------------------
(* save_email_config and test_email_config *)

\* int(request.form.get('mail_port', 587)): blanks around the digits are
\* dropped; anything but digits raises ValueError.
int(text) ==
    LET digits == strip(text)
    IN  IF digits = <<>> \/ \E k \in DOMAIN digits : digits[k] \notin 1 .. 9
        THEN [ValueError |-> TRUE, value |-> <<>>]
        ELSE [ValueError |-> FALSE, value |-> digits]

\* What the form of /admin/email-config/save can carry.
CompleteConfigForm ==
    [mail_server |-> <<7>>,
     mail_port |-> <<5, 8, 7>>,
     mail_use_tls |-> TRUE,
     mail_username |-> <<7, 1>>,
     mail_password |-> <<8>>,
     mail_default_sender |-> <<7, 3>>,
     mail_recipients |-> <<1, 3>>,
     is_active |-> TRUE]

\* The complete form, and the forms with a blank server, a blank port, blank
\* recipients, and blank recipients with notifications switched off
EmailConfigForms ==
    { CompleteConfigForm,
      [CompleteConfigForm EXCEPT !.mail_server = <<0>>],
      [CompleteConfigForm EXCEPT !.mail_port = <<0>>],
      [CompleteConfigForm EXCEPT !.mail_recipients = <<0>>],
      [CompleteConfigForm EXCEPT !.mail_recipients = <<0>>, !.is_active = FALSE] }

\* save_email_config writing the row before the decorator has answered
save_email_config_req_write_first(a, form) ==
    /\ email_config' = [saved |-> TRUE,
                        mail_server |-> strip(form.mail_server),
                        mail_port |-> form.mail_port,
                        mail_use_tls |-> form.mail_use_tls,
                        mail_username |-> strip(form.mail_username),
                        mail_password |-> strip(form.mail_password),
                        mail_default_sender |-> strip(form.mail_default_sender),
                        mail_recipients |-> strip(form.mail_recipients),
                        is_active |-> form.is_active]
    /\ last' = Response("save_email_config", a, 0,
                   IF email_config_required(a) = "allowed" THEN "ok"
                   ELSE email_config_required(a))
    /\ UNCHANGED <<login_checks_active, users, tokens, sessions, now, reqs, completed, incidents>>
    /\ outbox' = {}

\* The row object is filled in before the form is validated, but nothing is
\* committed on a validation failure and the request's session is dropped.
save_email_config_req(a, form) ==
    LET mail_server == strip(form.mail_server)
        mail_username == strip(form.mail_username)
        mail_password == strip(form.mail_password)
        mail_recipients == strip(form.mail_recipients)
        Refuse(outcome) == /\ email_config' = email_config
                           /\ last' = Response("save_email_config", a, 0, outcome)
    IN  /\ IF email_config_required(a) # "allowed" THEN Refuse(email_config_required(a))
           ELSE IF int(form.mail_port).ValueError THEN Refuse("error")
           ELSE IF mail_server = <<>> \/ mail_username = <<>> \/ mail_password = <<>>
           THEN Refuse("required_missing")
           ELSE IF form.is_active /\ mail_recipients = <<>>
           THEN Refuse("recipients_required")
           ELSE /\ email_config' = [saved |-> TRUE,
                                    mail_server |-> mail_server,
                                    mail_port |-> int(form.mail_port).value,
                                    mail_use_tls |-> form.mail_use_tls,
                                    mail_username |-> mail_username,
                                    mail_password |-> mail_password,
                                    mail_default_sender |-> strip(form.mail_default_sender),
                                    mail_recipients |-> mail_recipients,
                                    is_active |-> form.is_active]
                /\ last' = Response("save_email_config", a, 0, "ok")
        /\ UNCHANGED <<login_checks_active, users, tokens, sessions, now, reqs, completed, incidents>>
        /\ outbox' = {}

save_email_config ==
    \E a \in Actors, form \in EmailConfigForms : save_email_config_req(a, form)

test_email_config_req(a, email_sent) ==
    /\ IF email_config_required(a) # "allowed"
       THEN /\ outbox' = {}
            /\ last' = Response("test_email_config", a, 0, email_config_required(a))
       ELSE IF ~MailEnabled
       THEN /\ outbox' = {}
            /\ last' = Response("test_email_config", a, 0, "not_active")
       ELSE /\ outbox' = IF email_sent THEN {Message("test", email_config.mail_recipients)}
                         ELSE {}
            /\ last' = Response("test_email_config", a, 0,
                           IF email_sent THEN "ok" ELSE "error")
    /\ UNCHANGED <<login_checks_active, users, tokens, sessions, now, reqs, completed, incidents, email_config>>

test_email_config ==
    \E a \in Actors, email_sent \in SendResults : test_email_config_req(a, email_sent)

----------------------------------------------------------------------------
(* submit_incident.  A form field that is absent reads as the empty text.   *)

\* Python's None in a nullable column
None == <<-1>>

\* value.strip() or None
strip_or_None(text) == IF strip(text) = <<>> THEN None ELSE strip(text)

ANONYMOUS == <<4, 4>>

valid_types == { <<11>>, <<12>>, <<13>>, <<14>> }

YES == <<21>>
NO == <<22>>

\* incident_datetime_str.replace('T', ' '); the character 10 is the T
replace_T(text) == [k \in DOMAIN text |-> IF text[k] = 10 THEN 0 ELSE text[k]]

\* datetime.fromisoformat: a date (one digit here), or a date, one blank and
\* an hour; the value counts hours.  Anything else raises ValueError.
fromisoformat(text) ==
    IF Len(text) = 1 /\ text[1] \in 1 .. 9
    THEN [ValueError |-> FALSE, value |-> 24 * text[1]]
    ELSE IF Len(text) = 3 /\ text[1] \in 1 .. 9 /\ text[2] = 0 /\ text[3] \in 1 .. 9
    THEN [ValueError |-> FALSE, value |-> 24 * text[1] + text[3]]
    ELSE [ValueError |-> TRUE, value |-> 0]

\* A complete submission, and what each field may carry instead.
BaseForm ==
    [reporter_name |-> <<0, 5>>,
     reporter_job_title |-> <<>>,
     reporter_email |-> <<>>,
     reporter_phone |-> <<>>,
     remain_anonymous |-> <<>>,
     incident_datetime |-> <<2, 10, 3>>,
     incident_type |-> <<12>>,
     location |-> <<6, 0>>,
     description |-> <<7>>,
     incident_description |-> <<7>>,
     persons_involved |-> <<8>>,
     threats_weapons |-> <<>>,
     medical_treatment |-> <<>>,
     law_enforcement_contacted |-> <<>>,
     police_report_id |-> <<>>,
     security_intervention |-> <<>>,
     incident_response |-> <<>>,
     contributing_factors |-> <<>>]

ON == <<23>>

FieldInputs ==
    [reporter_name |-> { <<>>, <<0>> },
     reporter_job_title |-> { <<9>> },
     reporter_email |-> { <<5, 3>> },
     reporter_phone |-> { <<9>> },
     remain_anonymous |-> { ON },
     incident_datetime |-> { <<>>, <<0>>, <<2>>, <<2, 10>> },
     incident_type |-> { <<>>, <<0>>, <<15>>, <<0, 11>> },
     location |-> { <<>>, <<0>> },
     description |-> { <<>> },
     incident_description |-> { <<>>, <<0>> },
     persons_involved |-> { <<>>, <<0>> },
     threats_weapons |-> { <<0>>, <<9>> },
     medical_treatment |-> { <<9>> },
     law_enforcement_contacted |-> { YES, NO },
     police_report_id |-> { <<9>> },
     security_intervention |-> { <<9>> },
     incident_response |-> { <<9>> },
     contributing_factors |-> { <<9>> }]

Fields == DOMAIN BaseForm

\* A submission with a blank name and blank details, from a submitter who
\* gives an address and asks to remain anonymous
AnonymousForm ==
    [BaseForm EXCEPT !.reporter_name = <<0>>,
                     !.reporter_email = <<5, 3>>,
                     !.remain_anonymous = ON,
                     !.threats_weapons = <<0>>,
                     !.law_enforcement_contacted = <<0>>]

\* The submission of test_submit_incident: the description under its old
\* name, no incident_type and no incident_description
LegacyForm ==
    [BaseForm EXCEPT !.incident_type = <<>>,
                     !.incident_description = <<>>]

\* base, and base with one field replaced
OneFieldChanged(base) ==
    {base} \cup UNION { { [base EXCEPT ![f] = v] : v \in FieldInputs[f] } : f \in Fields }

\* The forms that differ from one of the three in at most one field.
SubmitForms ==
    OneFieldChanged(BaseForm) \cup OneFieldChanged(AnonymousForm)
        \cup OneFieldChanged(LegacyForm)

\* The reporter's name as typed, with no default for a blank one
reporter_name_as_typed(text) == strip(text)

\* reporter_name: 'Anonymous' when the field is absent or blank
reporter_name_or_default(text) == IF strip(text) = <<>> THEN ANONYMOUS ELSE strip(text)

\* The combined law-enforcement text
law_enforcement_text(contacted, police_report_id) ==
    IF contacted = None THEN None
    ELSE IF contacted = YES /\ police_report_id # None THEN YES \o police_report_id
    ELSE IF contacted = YES THEN YES \o <<0>>
    ELSE NO

\* The validation of submit_incident with no check of the incident type
submit_validation_any_type(form) ==
    IF \/ form.incident_datetime = <<>>
       \/ strip(form.incident_type) = <<>>
       \/ strip(form.location) = <<>>
       \/ strip(form.incident_description) = <<>>
       \/ strip(form.persons_involved) = <<>>
    THEN "required_missing"
    ELSE IF fromisoformat(replace_T(form.incident_datetime)).ValueError
    THEN "invalid_datetime"
    ELSE "ok"

\* The three checks of submit_incident, in the order the code makes them.
\* incident_datetime is the one required field that is not stripped.
submit_validation(form) ==
    IF \/ form.incident_datetime = <<>>
       \/ strip(form.incident_type) = <<>>
       \/ strip(form.location) = <<>>
       \/ strip(form.incident_description) = <<>>
       \/ strip(form.persons_involved) = <<>>
    THEN "required_missing"
    ELSE IF strip(form.incident_type) \notin valid_types THEN "invalid_type"
    ELSE IF fromisoformat(replace_T(form.incident_datetime)).ValueError
    THEN "invalid_datetime"
    ELSE "ok"

\* The address stored whether or not the submitter asked to remain anonymous
stored_reporter_email_always(form) == strip_or_None(form.reporter_email)

\* reporter_email as it is stored: None when remain_anonymous is 'on'
stored_reporter_email(form) ==
    IF form.remain_anonymous = ON THEN None ELSE strip_or_None(form.reporter_email)

\* Incident(...) as submit_incident fills it, with the column defaults.
IncidentRow(form) ==
    [reporter_name |-> reporter_name_or_default(form.reporter_name),
     reporter_job_title |-> strip_or_None(form.reporter_job_title),
     reporter_email |-> stored_reporter_email(form),
     reporter_phone |-> strip_or_None(form.reporter_phone),
     incident_datetime |-> fromisoformat(replace_T(form.incident_datetime)).value,
     incident_type |-> strip(form.incident_type),
     location |-> strip(form.location),
     description |-> strip(form.incident_description),
     incident_description |-> strip(form.incident_description),
     persons_involved |-> strip(form.persons_involved),
     threats_weapons |-> strip_or_None(form.threats_weapons),
     medical_treatment |-> strip_or_None(form.medical_treatment),
     law_enforcement |-> law_enforcement_text(strip_or_None(form.law_enforcement_contacted),
                                              strip_or_None(form.police_report_id)),
     law_enforcement_contacted |-> strip_or_None(form.law_enforcement_contacted),
     police_report_id |-> strip_or_None(form.police_report_id),
     security_intervention |-> strip_or_None(form.security_intervention),
     incident_response |-> strip_or_None(form.incident_response),
     contributing_factors |-> strip_or_None(form.contributing_factors),
     corrective_actions |-> None,
     submitted_at |-> now]

\* send_incident_notification: the message to the configured recipients and,
\* when the submitter gave an address, the confirmation to it.  accepted is
\* the number of messages the transport took before it failed, if it did.
IncidentMessages(confirmation_email, accepted) ==
    (IF accepted >= 1 THEN {Message("incident", email_config.mail_recipients)} ELSE {})
    \cup (IF accepted >= 2 THEN {Message("confirmation", confirmation_email)} ELSE {})

submit_incident_req(form, accepted) ==
    /\ IF submit_validation(form) # "ok"
       THEN /\ incidents' = incidents
            /\ outbox' = {}
            /\ last' = SubmitResponse(form, 0, submit_validation(form))
       ELSE /\ Len(incidents) < MaxIncidents
            /\ incidents' = Append(incidents, IncidentRow(form))
            /\ accepted \in IF ~MailEnabled THEN {0}
                            ELSE IF strip_or_None(form.reporter_email) = None THEN 0 .. 1
                            ELSE 0 .. 2
            /\ outbox' = IncidentMessages(strip_or_None(form.reporter_email), accepted)
            /\ last' = SubmitResponse(form, Len(incidents) + 1, "ok")
    /\ UNCHANGED <<login_checks_active, users, tokens, sessions, now, reqs, completed, email_config>>

submit_incident ==
    \E form \in SubmitForms, accepted \in 0 .. 2 : submit_incident_req(form, accepted)

----------------------------------------------------------------------------
(* update_corrective_actions.  The body is JSON; NoJson is a request with   *)
(* none.  A missing incident (get_or_404) and a missing body both raise     *)
(* inside the try block and come back as the handler's error answer.        *)

NoJson == [json |-> FALSE]

CorrectiveActionsInputs ==
    {NoJson} \cup [json : {TRUE}, corrective_actions : { <<0>>, <<9, 0>> },
                   notify_reporter : BOOLEAN]

\* incident.corrective_actions or ''
or_empty(value) == IF value = None THEN <<>> ELSE value

\* The answer to an update that was made, kept with the body it answers:
\* corrective_actions is the member of that name in the JSON answer
UpdateResponse(a, incident_id, data, corrective_actions) ==
    [op |-> "update_corrective_actions", actor |-> a, target |-> incident_id,
     outcome |-> "ok", data |-> data, corrective_actions |-> corrective_actions]

\* update_corrective_actions writing the text into every incident
update_corrective_actions_req_every_row(a, incident_id, data, email_sent) ==
    /\ incident_manager_required(a) = "allowed"
    /\ incident_id \in DOMAIN incidents
    /\ data # NoJson
    /\ incidents' = [i \in DOMAIN incidents |->
                         [incidents[i] EXCEPT !.corrective_actions =
                              strip_or_None(data.corrective_actions)]]
    /\ outbox' = {}
    /\ last' = UpdateResponse(a, incident_id, data,
                              or_empty(strip_or_None(data.corrective_actions)))
    /\ UNCHANGED <<login_checks_active, users, tokens, sessions, now, reqs, completed, email_config>>

\* update_corrective_actions writing the field before the decorator has answered
update_corrective_actions_req_write_first(a, incident_id, data, email_sent) ==
    /\ incident_id \in DOMAIN incidents
    /\ data # NoJson
    /\ incidents' = [incidents EXCEPT ![incident_id].corrective_actions =
                         strip_or_None(data.corrective_actions)]
    /\ outbox' = {}
    /\ last' = Response("update_corrective_actions", a, incident_id,
                   IF incident_manager_required(a) = "allowed" THEN "ok"
                   ELSE incident_manager_required(a))
    /\ UNCHANGED <<login_checks_active, users, tokens, sessions, now, reqs, completed, email_config>>

\* send_corrective_actions_notification reads email_config.admin_email, which
\* EmailConfig does not have: with mail enabled it raises, is caught and sends
\* nothing.  The reporter is written to when asked for and an address is stored.
update_corrective_actions_req(a, incident_id, data, email_sent) ==
    /\ IF incident_manager_required(a) # "allowed"
       THEN /\ incidents' = incidents
            /\ outbox' = {}
            /\ last' = Response("update_corrective_actions", a, incident_id,
                           incident_manager_required(a))
       ELSE IF incident_id \notin DOMAIN incidents \/ data = NoJson
       THEN /\ incidents' = incidents
            /\ outbox' = {}
            /\ last' = Response("update_corrective_actions", a, incident_id, "error")
       ELSE /\ incidents' = [incidents EXCEPT ![incident_id].corrective_actions =
                                 strip_or_None(data.corrective_actions)]
            /\ email_sent \in IF /\ data.notify_reporter
                                 /\ incidents[incident_id].reporter_email # None
                              THEN SendResults ELSE {FALSE}
            /\ outbox' = IF email_sent
                         THEN {Message("corrective_actions",
                                       incidents[incident_id].reporter_email)}
                         ELSE {}
            /\ last' = UpdateResponse(a, incident_id, data,
                                      or_empty(strip_or_None(data.corrective_actions)))
    /\ UNCHANGED <<login_checks_active, users, tokens, sessions, now, reqs, completed, email_config>>

\* The ids asked for are those of the stored incidents and one that is not stored.
update_corrective_actions ==
    \E a \in Actors, incident_id \in 1 .. Len(incidents) + 1 :
        \E data \in ReadBehind(incident_manager_required(a), CorrectiveActionsInputs),
           email_sent \in ReadBehind(incident_manager_required(a), SendResults) :
            update_corrective_actions_req(a, incident_id, data, email_sent)

----------------------------------------------------------------------------
(* get_incidents: the filtered and sorted list of incidents.  A capital     *)
(* letter is its small letter plus 100.  A moment is counted in hours, so   *)
(* 23:59:59 of a day is its hour 23.                                        *)

PERCENT == 37
UNDERSCORE == 95

lower(c) == IF c >= 100 THEN c - 100 ELSE c

\* SQL LIKE, without regard to case: % stands for any text, _ for any one character
RECURSIVE like(_, _)
like(pattern, text) ==
    IF pattern = <<>> THEN text = <<>>
    ELSE IF Head(pattern) = PERCENT
    THEN like(Tail(pattern), text) \/ (text # <<>> /\ like(pattern, Tail(text)))
    ELSE /\ text # <<>>
         /\ Head(pattern) = UNDERSCORE \/ lower(Head(pattern)) = lower(Head(text))
         /\ like(Tail(pattern), Tail(text))

\* column.ilike(f'%{search}%'); a NULL column matches nothing
ilike(value, search) ==
    value # None /\ like(<<PERCENT>> \o search \o <<PERCENT>>, value)

\* The columns inside db.or_(...)
searched_columns ==
    {"reporter_name", "reporter_job_title", "reporter_email", "incident_type",
     "location", "incident_description", "persons_involved", "threats_weapons",
     "medical_treatment", "law_enforcement", "security_intervention",
     "incident_response", "contributing_factors", "corrective_actions"}

\* The search text used as it was typed
search_text_as_typed(text) == text

\* request.args.get('search', '').strip()
search_text(text) == strip(text)

\* datetime.strptime(text, '%Y-%m-%d'): midnight of the day, or ValueError
strptime(text) ==
    IF Len(text) = 1 /\ text[1] \in 1 .. 9
    THEN [ValueError |-> FALSE, value |-> 24 * text[1]]
    ELSE [ValueError |-> TRUE, value |-> 0]

\* The end date left at midnight
end_of_day_midnight(midnight) == midnight

\* end_datetime.replace(hour=23, minute=59, second=59)
end_of_day(midnight) == midnight + 23

\* What hasattr(Incident, sort_by) accepts: the columns, and other attributes
\* of the class, which have no desc() or asc()
IncidentColumns == DOMAIN IncidentRow(BaseForm) \cup {"id"}

IncidentAttributes == IncidentColumns \cup {"to_dict", "query", "metadata"}

\* The columns a request sorts by here; each holds a number
sort_key(i, sort_by) == IF sort_by = "id" THEN i ELSE incidents[i][sort_by]

\* The request with no query parameters
NoArgs ==
    [search |-> <<>>, start_date |-> <<>>, end_date |-> <<>>,
     sort_by |-> "submitted_at", sort_order |-> "desc"]

QueryArgs ==
    [search : { <<>>, <<0>>, <<106>>, <<31>>, <<UNDERSCORE>> },
     start_date : { <<>>, <<2>>, <<3, 0>>, <<2, 10>> },
     end_date : { <<>>, <<2>>, <<0, 1>> },
     sort_by : {"submitted_at", "incident_datetime", "id", "to_dict", "no_such_field"},
     sort_order : {"desc", "asc"}]

\* The ids of the rows the filters let through
filtered(args) ==
    LET search == search_text(args.search)
        start_date == strip(args.start_date)
        end_date == strip(args.end_date)
    IN  { i \in DOMAIN incidents :
            /\ search # <<>> => \E c \in searched_columns : ilike(incidents[i][c], search)
            /\ (start_date # <<>> /\ ~strptime(start_date).ValueError)
                  => incidents[i].incident_datetime >= strptime(start_date).value
            /\ (end_date # <<>> /\ ~strptime(end_date).ValueError)
                  => incidents[i].incident_datetime <= end_of_day(strptime(end_date).value) }

\* query.all(): the rows in the order asked for; rows with equal keys, and
\* all rows when there is no ORDER BY, come in an order the store chooses
QueryResults(args) ==
    LET ids == filtered(args)
        n == Cardinality(ids)
        ordered == args.sort_by \in IncidentColumns
    IN  { result \in [1 .. n -> ids] :
            /\ \A j, k \in 1 .. n : j # k => result[j] # result[k]
            /\ ordered => \A j, k \in 1 .. n : j < k =>
                  IF args.sort_order = "desc"
                  THEN sort_key(result[j], args.sort_by) >= sort_key(result[k], args.sort_by)
                  ELSE sort_key(result[j], args.sort_by) <= sort_key(result[k], args.sort_by) }

\* The list that was returned, kept with the parameters it answers
QueryResponse(a, args, result) ==
    [op |-> "get_incidents", actor |-> a, target |-> 0, outcome |-> "ok",
     args |-> args, incidents |-> result]

\* An attribute that is no column raises on desc() or asc() and the handler
\* answers with its error.
get_incidents_req(a, args) ==
    /\ IF incident_manager_required(a) # "allowed"
       THEN last' = Response("get_incidents", a, 0, incident_manager_required(a))
       ELSE IF args.sort_by \in IncidentAttributes \ IncidentColumns
       THEN last' = Response("get_incidents", a, 0, "error")
       ELSE \E result \in QueryResults(args) : last' = QueryResponse(a, args, result)
    /\ outbox' = {}
    /\ UNCHANGED <<login_checks_active, users, tokens, sessions, now, reqs, completed, incidents, email_config>>

\* The request with no query parameters
get_incidents == \E a \in Actors : get_incidents_req(a, NoArgs)

get_incidents_with_args == \E a \in Actors, args \in QueryArgs : get_incidents_req(a, args)

----------------------------------------------------------------------------
(* class PasswordResetToken *)

\* is_valid with the expiry instant still inside the lifetime
is_valid_through_expiry(t) == ~t.used /\ now <= t.expires_at

is_valid(t) == ~t.used /\ now < t.expires_at

\* filter_by(token=value).first(): the row with that value, or 0 for none
TokenRow(value) == IF value \in DOMAIN tokens THEN value ELSE 0

FreeSlots == { s \in DOMAIN reqs : reqs[s] = NoReq }

FreeSlot == CHOOSE s \in FreeSlots : \A r \in FreeSlots : s <= r

\* rows of the token table that exist or are about to be inserted
TokensClaimed ==
    Len(tokens) + Cardinality({ s \in DOMAIN reqs : reqs[s].kind = "forgot" })

----------------------------------------------------------------------------
(* forgot_password, POST, with generate_password_reset_token.               *)
(* Begin: the user is looked up, the expiry is computed and the UPDATE that *)
(* invalidates the user's unused tokens is issued; it touches the rows that *)
(* are unused in the store at that moment.  Commit: the UPDATE and the      *)
(* INSERT of the new token become visible together, then the e-mail is      *)
(* sent.                                                                    *)

\* forgot_password without the is_active filter
forgot_password_begin_req_inactive_too(username_in) ==
    LET username == strip(username_in)
        found == { i \in DOMAIN users : users[i].username = username }
    IN  /\ IF username = <<>>
           THEN /\ reqs' = reqs
                /\ last' = Response("forgot_password", 0, 0, "username_required")
           ELSE IF \E i \in found : users[i].email # NoEmail
           THEN LET i == CHOOSE i \in found : TRUE
                IN  /\ FreeSlots # {}
                    /\ TokensClaimed < MaxTokens
                    /\ reqs' = [reqs EXCEPT ![FreeSlot] =
                          [kind |-> "forgot",
                           user_id |-> i,
                           email |-> users[i].email,
                           expires_at |-> now + TOKEN_HOURS,
                           invalidated |-> { t \in DOMAIN tokens :
                                               tokens[t].user_id = i /\ ~tokens[t].used }]]
                    /\ last' = Response("forgot_password", 0, i, "pending")
           ELSE /\ reqs' = reqs
                /\ last' = Response("forgot_password", 0, Named(username), "generic_notice")
        /\ UNCHANGED <<login_checks_active, users, tokens, sessions, now, completed, incidents, email_config>>
        /\ outbox' = {}

forgot_password_begin_req(username_in) ==
    LET username == strip(username_in)
        found == { i \in DOMAIN users :
                     users[i].username = username /\ users[i].is_active }
    IN  /\ IF username = <<>>
           THEN /\ reqs' = reqs
                /\ last' = Response("forgot_password", 0, 0, "username_required")
           ELSE IF \E i \in found : users[i].email # NoEmail
           THEN LET i == CHOOSE i \in found : TRUE
                IN  /\ FreeSlots # {}
                    /\ TokensClaimed < MaxTokens
                    /\ reqs' = [reqs EXCEPT ![FreeSlot] =
                          [kind |-> "forgot",
                           user_id |-> i,
                           email |-> users[i].email,
                           expires_at |-> now + TOKEN_HOURS,
                           invalidated |-> { t \in DOMAIN tokens :
                                               tokens[t].user_id = i /\ ~tokens[t].used }]]
                    /\ last' = Response("forgot_password", 0, i, "pending")
           ELSE /\ reqs' = reqs
                /\ last' = Response("forgot_password", 0, Named(username), "generic_notice")
        /\ UNCHANGED <<login_checks_active, users, tokens, sessions, now, completed, incidents, email_config>>
        /\ outbox' = {}

forgot_password_begin ==
    \E username_in \in UsernameInputs : forgot_password_begin_req(username_in)

\* forgot_password taking the new token back when the e-mail was not sent
forgot_password_commit_req_undone_on_failure(s, email_sent) ==
    /\ reqs[s].kind = "forgot"
    /\ email_sent \in SendResults
    /\ tokens' = IF ~email_sent THEN tokens ELSE
                 Append([t \in DOMAIN tokens |->
                            IF t \in reqs[s].invalidated
                            THEN [tokens[t] EXCEPT !.used = TRUE] ELSE tokens[t]],
                        [user_id |-> reqs[s].user_id,
                         expires_at |-> reqs[s].expires_at,
                         used |-> FALSE])
    /\ reqs' = [reqs EXCEPT ![s] = NoReq]
    /\ last' = Response("forgot_password", 0, Len(tokens) + 1,
                   IF email_sent THEN "instructions_sent" ELSE "send_failed")
    /\ outbox' = IF email_sent THEN {Message("password_reset", reqs[s].email)} ELSE {}
    /\ UNCHANGED <<login_checks_active, users, sessions, now, completed, incidents, email_config>>

forgot_password_commit_req(s, email_sent) ==
    /\ reqs[s].kind = "forgot"
    /\ email_sent \in SendResults
    /\ tokens' = Append([t \in DOMAIN tokens |->
                            IF t \in reqs[s].invalidated
                            THEN [tokens[t] EXCEPT !.used = TRUE] ELSE tokens[t]],
                        [user_id |-> reqs[s].user_id,
                         expires_at |-> reqs[s].expires_at,
                         used |-> FALSE])
    /\ reqs' = [reqs EXCEPT ![s] = NoReq]
    /\ last' = Response("forgot_password", 0, Len(tokens) + 1,
                   IF email_sent THEN "instructions_sent" ELSE "send_failed")
    /\ outbox' = IF email_sent THEN {Message("password_reset", reqs[s].email)} ELSE {}
    /\ UNCHANGED <<login_checks_active, users, sessions, now, completed, incidents, email_config>>

forgot_password_commit ==
    \E s \in DOMAIN reqs, email_sent \in BOOLEAN : forgot_password_commit_req(s, email_sent)

----------------------------------------------------------------------------
(* reset_password.  Begin: the token is looked up and checked, the user is  *)
(* loaded and the form is validated.  Commit: the new hash and used = True  *)
(* are written and committed.                                               *)

\* reset_password without the check of the password's length
reset_password_begin_req_any_length(value, method, password_in, confirm_in) ==
    LET reset_token == TokenRow(value)
        new_password == strip(password_in)
        confirm_password == strip(confirm_in)
        Answer(outcome) == /\ reqs' = reqs
                           /\ last' = Response("reset_password", 0, value, outcome)
    IN  /\ IF reset_token = 0 \/ ~is_valid(tokens[reset_token])
           THEN Answer("invalid_token")
           ELSE IF method = "GET" THEN Answer("form")
           ELSE IF new_password = <<>> THEN Answer("password_required")
           ELSE IF new_password # confirm_password THEN Answer("mismatch")
           ELSE IF tokens[reset_token].user_id \notin DOMAIN users
           THEN Answer("server_error")
           ELSE /\ FreeSlots # {}
                /\ reqs' = [reqs EXCEPT ![FreeSlot] =
                      [kind |-> "reset",
                       token |-> reset_token,
                       user_id |-> tokens[reset_token].user_id,
                       password |-> new_password]]
                /\ last' = Response("reset_password", 0, value, "pending")
        /\ UNCHANGED <<login_checks_active, users, tokens, sessions, now, completed, incidents, email_config>>
        /\ outbox' = {}

reset_password_begin_req(value, method, password_in, confirm_in) ==
    LET reset_token == TokenRow(value)
        new_password == strip(password_in)
        confirm_password == strip(confirm_in)
        Answer(outcome) == /\ reqs' = reqs
                           /\ last' = Response("reset_password", 0, value, outcome)
    IN  /\ IF reset_token = 0 \/ ~is_valid(tokens[reset_token])
           THEN Answer("invalid_token")
           ELSE IF method = "GET" THEN Answer("form")
           ELSE IF new_password = <<>> THEN Answer("password_required")
           ELSE IF new_password # confirm_password THEN Answer("mismatch")
           ELSE IF Len(new_password) < MIN_PASSWORD_LENGTH THEN Answer("weak_password")
           ELSE IF tokens[reset_token].user_id \notin DOMAIN users
           THEN Answer("server_error")
           ELSE /\ FreeSlots # {}
                /\ reqs' = [reqs EXCEPT ![FreeSlot] =
                      [kind |-> "reset",
                       token |-> reset_token,
                       user_id |-> tokens[reset_token].user_id,
                       password |-> new_password]]
                /\ last' = Response("reset_password", 0, value, "pending")
        /\ UNCHANGED <<login_checks_active, users, tokens, sessions, now, completed, incidents, email_config>>
        /\ outbox' = {}

reset_password_begin ==
    \E value \in 1 .. MaxTokens, method \in {"GET", "POST"},
       password_in \in PasswordInputs, confirm_in \in PasswordInputs :
        reset_password_begin_req(value, method, password_in, confirm_in)

\* reset_password committing the password and the token's flag one after
\* the other: a commit that fails is the second one
reset_password_commit_req_two_commits(s, salt, committed) ==
    /\ reqs[s].kind = "reset"
    /\ IF reqs[s].user_id \in DOMAIN users
       THEN /\ users' = [users EXCEPT ![reqs[s].user_id].password_hash =
                             generate_password_hash(reqs[s].password, salt)]
            /\ tokens' = IF committed THEN [tokens EXCEPT ![reqs[s].token].used = TRUE]
                         ELSE tokens
            /\ completed' = [completed EXCEPT ![reqs[s].token] = @ + 1]
            /\ last' = Response("reset_password", 0, reqs[s].token,
                           IF committed THEN "ok" ELSE "server_error")
       ELSE /\ UNCHANGED <<login_checks_active, users, tokens, completed>>
            /\ last' = Response("reset_password", 0, reqs[s].token, "server_error")
    /\ reqs' = [reqs EXCEPT ![s] = NoReq]
    /\ UNCHANGED <<login_checks_active, sessions, now, incidents, email_config>>
    /\ outbox' = {}

\* The new hash and used = True are pending in one session and go to the
\* store in the one db.session.commit(); when that raises, neither does.
reset_password_commit_req(s, salt, committed) ==
    /\ reqs[s].kind = "reset"
    /\ IF reqs[s].user_id \in DOMAIN users /\ committed
       THEN /\ users' = [users EXCEPT ![reqs[s].user_id].password_hash =
                             generate_password_hash(reqs[s].password, salt)]
            /\ tokens' = [tokens EXCEPT ![reqs[s].token].used = TRUE]
            /\ completed' = [completed EXCEPT ![reqs[s].token] = @ + 1]
            /\ last' = Response("reset_password", 0, reqs[s].token, "ok")
       ELSE /\ UNCHANGED <<login_checks_active, users, tokens, completed>>
            /\ last' = Response("reset_password", 0, reqs[s].token, "server_error")
    /\ reqs' = [reqs EXCEPT ![s] = NoReq]
    /\ UNCHANGED <<login_checks_active, sessions, now, incidents, email_config>>
    /\ outbox' = {}

reset_password_commit ==
    \E s \in DOMAIN reqs, salt \in Salts, committed \in BOOLEAN :
        reset_password_commit_req(s, salt, committed)

----------------------------------------------------------------------------
(* Accounts, sessions and permissions. *)

Next ==
    \/ admin_login
    \/ admin_logout
    \/ change_password_required
    \/ admin_dashboard
    \/ get_incidents
    \/ export_incidents
    \/ admin_users
    \/ admin_email_config
    \/ add_user
    \/ toggle_user
    \/ change_user_password
    \/ change_user_role
    \/ delete_user

Spec == Init /\ [][Next]_vars

----------------------------------------------------------------------------
(* Password recovery, with requests that overlap.  It starts where the      *)
(* admin has added a second account and logged out.                         *)

\* The account add_user makes of (<<2>>, <<2, 3>>, incident_manager)
AddedAccount ==
    [username |-> <<2>>,
     email |-> <<2, 3>>,
     password_hash |-> generate_password_hash(CHOOSE p \in TemporaryPasswords : TRUE, 1),
     is_active |-> TRUE,
     must_change_password |-> TRUE,
     role |-> "incident_manager"]

\* The account the create-admin command makes: no e-mail, the column defaults
CreatedAccount ==
    [username |-> <<2>>,
     email |-> NoEmail,
     password_hash |-> generate_password_hash(<<2, 2, 1, 1, 2, 2>>, 1),
     is_active |-> TRUE,
     must_change_password |-> FALSE,
     role |-> "incident_manager"]

\* The e-mail configuration the admin has saved, notifications active
ActiveConfig ==
    [saved |-> TRUE,
     mail_server |-> <<7>>,
     mail_port |-> <<5, 8, 7>>,
     mail_use_tls |-> TRUE,
     mail_username |-> <<7, 1>>,
     mail_password |-> <<8>>,
     mail_default_sender |-> <<7, 3>>,
     mail_recipients |-> <<1, 3>>,
     is_active |-> TRUE]

\* The admin alone, or with a second account: added, added and deactivated,
\* or created from the command line.
TokenInit ==
    /\ login_checks_active = FALSE
    /\ \E second \in { <<>>, <<AddedAccount>>,
                       <<[AddedAccount EXCEPT !.is_active = FALSE]>>, <<CreatedAccount>> } :
          users = [i \in 1 .. 1 + Len(second) |->
                     IF i = 1
                     THEN [username |-> ADMIN_USERNAME,
                           email |-> ADMIN_EMAIL,
                           password_hash |-> generate_password_hash(ADMIN_PASSWORD, 1),
                           is_active |-> TRUE,
                           must_change_password |-> FALSE,
                           role |-> "master_admin"]
                     ELSE second[1]]
    /\ tokens = <<>>
    /\ sessions = {}
    /\ now = 0
    /\ reqs = [s \in 1 .. MaxInFlight |-> NoReq]
    /\ completed = [t \in 1 .. MaxTokens |-> 0]
    /\ incidents = <<>>
    /\ email_config = ActiveConfig
    /\ outbox = {}
    /\ last = Response("admin_logout", 1, 1, "ok")

TokenNext ==
    \/ Tick
    \/ forgot_password_begin
    \/ forgot_password_commit
    \/ reset_password_begin
    \/ reset_password_commit

TokenSpec == TokenInit /\ [][TokenNext]_vars

----------------------------------------------------------------------------
(* Every operation behind a permission decorator, called under the login   *)
(* of either account or under none.  It starts where the admin has added an *)
(* incident manager, who has chosen a password, one incident has been       *)
(* reported and both accounts are logged in.                                *)

GateInit ==
    /\ login_checks_active \in BOOLEAN
    /\ users = (1 :> [username |-> ADMIN_USERNAME,
                      email |-> ADMIN_EMAIL,
                      password_hash |-> generate_password_hash(ADMIN_PASSWORD, 1),
                      is_active |-> TRUE,
                      must_change_password |-> FALSE,
                      role |-> "master_admin"])
            @@ (2 :> [AddedAccount EXCEPT
                        !.password_hash = generate_password_hash(<<0, 2, 2, 1, 1, 2, 2>>, 1),
                        !.must_change_password = FALSE])
    /\ tokens = <<>>
    /\ sessions = {1, 2}
    /\ now = 0
    /\ reqs = [s \in 1 .. MaxInFlight |-> NoReq]
    /\ completed = [t \in 1 .. MaxTokens |-> 0]
    /\ incidents = << IncidentRow([BaseForm EXCEPT !.reporter_email = <<5, 3>>]) >>
    /\ email_config = NoConfig
    /\ outbox = {}
    /\ last = Response("admin_login", 0, 2, "ok")

GateNext ==
    \/ admin_dashboard
    \/ get_incidents
    \/ export_incidents
    \/ admin_users
    \/ admin_email_config
    \/ add_user
    \/ toggle_user
    \/ change_user_password
    \/ change_user_role
    \/ delete_user
    \/ save_email_config
    \/ test_email_config
    \/ update_corrective_actions

GateSpec == GateInit /\ [][GateNext]_vars

----------------------------------------------------------------------------
(* The three ways a password is set: the mandatory change, the redemption   *)
(* of a reset token and the administrative change.  It starts where the     *)
(* admin has added the second account and both have logged in, the second   *)
(* with its temporary password.                                             *)

PasswordInit ==
    /\ login_checks_active = FALSE
    /\ users = (1 :> [username |-> ADMIN_USERNAME,
                      email |-> ADMIN_EMAIL,
                      password_hash |-> generate_password_hash(ADMIN_PASSWORD, 1),
                      is_active |-> TRUE,
                      must_change_password |-> FALSE,
                      role |-> "master_admin"])
            @@ (2 :> AddedAccount)
    /\ tokens = <<>>
    /\ sessions = {1, 2}
    /\ now = 0
    /\ reqs = [s \in 1 .. MaxInFlight |-> NoReq]
    /\ completed = [t \in 1 .. MaxTokens |-> 0]
    /\ incidents = <<>>
    /\ email_config = ActiveConfig
    /\ outbox = {}
    /\ last = Response("admin_login", 0, 2, "change_password_required")

PasswordNext ==
    \/ change_password_required
    \/ change_user_password
    \/ forgot_password_begin
    \/ forgot_password_commit
    \/ reset_password_begin
    \/ reset_password_commit

PasswordSpec == PasswordInit /\ [][PasswordNext]_vars

----------------------------------------------------------------------------
(* The public form and the follow-up on a report.  It starts with the admin *)
(* logged in, a saved e-mail configuration and no incident reported; the    *)
(* store is taken to accept the INSERT of a valid report.                   *)

IncidentInit ==
    /\ login_checks_active = FALSE
    /\ users = (1 :> [username |-> ADMIN_USERNAME,
                      email |-> ADMIN_EMAIL,
                      password_hash |-> generate_password_hash(ADMIN_PASSWORD, 1),
                      is_active |-> TRUE,
                      must_change_password |-> FALSE,
                      role |-> "master_admin"])
    /\ tokens = <<>>
    /\ sessions = {1}
    /\ now = 0
    /\ reqs = [s \in 1 .. MaxInFlight |-> NoReq]
    /\ completed = [t \in 1 .. MaxTokens |-> 0]
    /\ incidents = <<>>
    /\ email_config = ActiveConfig
    /\ outbox = {}
    /\ last = Response("admin_login", 0, 1, "ok")

IncidentNext ==
    \/ Tick
    \/ submit_incident
    \/ update_corrective_actions

IncidentSpec == IncidentInit /\ [][IncidentNext]_vars

----------------------------------------------------------------------------
(* The follow-up on stored reports.  It starts with the admin logged in, a  *)
(* saved e-mail configuration and two reports stored, the second one        *)
(* anonymous.                                                               *)

FollowUpInit ==
    /\ login_checks_active = FALSE
    /\ users = (1 :> [username |-> ADMIN_USERNAME,
                      email |-> ADMIN_EMAIL,
                      password_hash |-> generate_password_hash(ADMIN_PASSWORD, 1),
                      is_active |-> TRUE,
                      must_change_password |-> FALSE,
                      role |-> "master_admin"])
    /\ tokens = <<>>
    /\ sessions = {1}
    /\ now = 0
    /\ reqs = [s \in 1 .. MaxInFlight |-> NoReq]
    /\ completed = [t \in 1 .. MaxTokens |-> 0]
    /\ incidents = << IncidentRow([BaseForm EXCEPT !.reporter_email = <<5, 3>>]),
                      IncidentRow(AnonymousForm) >>
    /\ email_config = ActiveConfig
    /\ outbox = {}
    /\ last = Response("admin_login", 0, 1, "ok")

FollowUpNext ==
    \/ Tick
    \/ submit_incident
    \/ update_corrective_actions

FollowUpSpec == FollowUpInit /\ [][FollowUpNext]_vars

----------------------------------------------------------------------------
(* The list of incidents.  It starts with the admin logged in and three     *)
(* reports stored: one of day 2 at midnight with a telephone number, one of *)
(* day 2 at three with a capital in its location, and one of day 3 at       *)
(* midnight, submitted an hour apart.                                       *)

QueryInit ==
    /\ login_checks_active = FALSE
    /\ users = (1 :> [username |-> ADMIN_USERNAME,
                      email |-> ADMIN_EMAIL,
                      password_hash |-> generate_password_hash(ADMIN_PASSWORD, 1),
                      is_active |-> TRUE,
                      must_change_password |-> FALSE,
                      role |-> "master_admin"])
    /\ tokens = <<>>
    /\ sessions = {1}
    /\ now = 2
    /\ reqs = [s \in 1 .. MaxInFlight |-> NoReq]
    /\ completed = [t \in 1 .. MaxTokens |-> 0]
    /\ incidents =
          << [IncidentRow([BaseForm EXCEPT !.incident_datetime = <<2>>,
                                           !.reporter_phone = <<31>>])
                 EXCEPT !.submitted_at = 0],
             [IncidentRow([BaseForm EXCEPT !.location = <<106, 0>>])
                 EXCEPT !.submitted_at = 1],
             [IncidentRow([AnonymousForm EXCEPT !.incident_datetime = <<3>>])
                 EXCEPT !.submitted_at = 1] >>
    /\ email_config = NoConfig
    /\ outbox = {}
    /\ last = Response("admin_login", 0, 1, "ok")

QueryNext ==
    \/ get_incidents_with_args
    \/ admin_logout

QuerySpec == QueryInit /\ [][QueryNext]_vars

----------------------------------------------------------------------------
(* The four operations that write and then notify, under a saved e-mail     *)
(* configuration and the admin's login.  It starts in a store where one of  *)
(* the three tables has room: no incident yet, or no second account yet, or *)
(* no token yet.  Where the tokens are there, the admin has asked for two   *)
(* and redeemed the second with the password it had.                        *)

DefaultAdmin ==
    [username |-> ADMIN_USERNAME,
     email |-> ADMIN_EMAIL,
     password_hash |-> generate_password_hash(ADMIN_PASSWORD, 1),
     is_active |-> TRUE,
     must_change_password |-> FALSE,
     role |-> "master_admin"]

SpentTokens ==
    << [user_id |-> 1, expires_at |-> TOKEN_HOURS, used |-> TRUE],
       [user_id |-> 1, expires_at |-> TOKEN_HOURS, used |-> TRUE] >>

NotifyInit ==
    /\ login_checks_active = FALSE
    /\ now = 0
    /\ \/ /\ incidents = <<>>
          /\ users = (1 :> DefaultAdmin) @@ (2 :> AddedAccount)
          /\ tokens = SpentTokens
       \/ /\ incidents = << IncidentRow([BaseForm EXCEPT !.reporter_email = <<5, 3>>]) >>
          /\ users = (1 :> DefaultAdmin)
          /\ tokens = SpentTokens
       \/ /\ incidents = << IncidentRow([BaseForm EXCEPT !.reporter_email = <<5, 3>>]) >>
          /\ users = (1 :> DefaultAdmin) @@ (2 :> AddedAccount)
          /\ tokens = <<>>
    /\ completed = [t \in 1 .. MaxTokens |-> IF t = Len(tokens) THEN 1 ELSE 0]
    /\ sessions = {1}
    /\ reqs = [s \in 1 .. MaxInFlight |-> NoReq]
    /\ email_config = ActiveConfig
    /\ outbox = {}
    /\ last = Response("admin_login", 0, 1, "ok")

NotifyNext ==
    \/ submit_incident
    \/ add_user
    \/ forgot_password_begin
    \/ forgot_password_commit
    \/ update_corrective_actions

NotifySpec == NotifyInit /\ [][NotifyNext]_vars

\* Account deletion next to password recovery: the default admin is logged in,
\* a second account with an e-mail address exists and may ask for reset links.
\* SQLite, the default SQLALCHEMY_DATABASE_URI, does not enforce the foreign
\* key of PasswordResetToken.user_id, so db.session.delete(user) succeeds
\* whatever tokens name the account.
LedgerInit ==
    /\ login_checks_active = FALSE
    /\ users = (1 :> DefaultAdmin) @@ (2 :> AddedAccount)
    /\ tokens = <<>>
    /\ sessions = {1}
    /\ now = 0
    /\ reqs = [s \in 1 .. MaxInFlight |-> NoReq]
    /\ completed = [t \in 1 .. MaxTokens |-> 0]
    /\ incidents = <<>>
    /\ email_config = ActiveConfig
    /\ outbox = {}
    /\ last = Response("admin_login", 0, 1, "ok")

LedgerNext ==
    \/ Tick
    \/ forgot_password_begin
    \/ forgot_password_commit
    \/ reset_password_begin
    \/ reset_password_commit
    \/ delete_user

LedgerSpec == LedgerInit /\ [][LedgerNext]_vars

----------------------------------------------------------------------------
(* Properties *)

GateRefusals == {"login_redirect", "denied"}

ManageUsersOps == {"admin_users", "add_user", "toggle_user", "change_user_password",
                   "change_user_role", "delete_user"}

EmailConfigOps == {"admin_email_config"}

IncidentOps == {"admin_dashboard", "get_incidents", "export_incidents"}

GatedOps == ManageUsersOps \cup EmailConfigOps \cup IncidentOps

\* The operations behind a decorator that write besides user management
GatedWrites == {"save_email_config", "test_email_config", "update_corrective_actions"}

\* C1: while the account of a session has must_change_password set, every
\* request under that session to an operation behind a permission decorator
\* is refused by the decorator.
C1_ForcedChangeDeniesEveryCapability ==
    [][ ( /\ last'.op \in GatedOps
          /\ last'.actor \in sessions
          /\ last'.actor \in DOMAIN users
          /\ users[last'.actor].must_change_password )
        => last'.outcome \in GateRefusals ]_vars

\* C2: of the redemption requests for one token value, however their checks
\* and commits interleave, at most one sets the password.
C2_AtMostOneConcurrentRedemption ==
    \A t \in DOMAIN completed : completed[t] <= 1

\* C3: once a token value has been redeemed, every later answer to a
\* redemption of that value is the invalid-or-expired one, and the step that
\* gives it changes no account and no token.
C3_RedeemedTokenNeverRedeemsAgain ==
    [][ ( /\ last'.op = "reset_password"
          /\ last'.outcome # "pending"
          /\ last'.target \in DOMAIN completed
          /\ completed[last'.target] >= 1 )
        => ( /\ last'.outcome = "invalid_token"
             /\ users' = users
             /\ tokens' = tokens ) ]_vars

\* C4: issuing a token for an account leaves every token issued before for
\* that account marked used and changes no token of another account, and a
\* redemption that starts on a token while a newer token of the same account
\* exists is answered invalid-or-expired.
C4_ReissueInvalidatesOlderTokens ==
    [][ /\ \A s \in DOMAIN reqs, sent \in BOOLEAN :
             ( last'.op = "forgot_password" /\ forgot_password_commit_req(s, sent) ) =>
                 \A t \in DOMAIN tokens :
                     IF tokens[t].user_id = reqs[s].user_id
                     THEN tokens'[t].used
                     ELSE tokens'[t] = tokens[t]
        /\ \A value \in DOMAIN tokens, method \in {"GET", "POST"},
              p \in PasswordInputs, c \in PasswordInputs :
             ( /\ last'.op = "reset_password"
               /\ last'.target = value
               /\ reset_password_begin_req(value, method, p, c)
               /\ \E newer \in DOMAIN tokens :
                      newer > value /\ tokens[newer].user_id = tokens[value].user_id )
             => last'.outcome = "invalid_token" ]_vars

\* C5: in every state each account has at most one token that is unused and
\* not yet expired.
C5_AtMostOneValidTokenPerAccount ==
    \A u \in UserIds :
        Cardinality({ t \in DOMAIN tokens :
                        /\ tokens[t].user_id = u
                        /\ ~tokens[t].used
                        /\ now < tokens[t].expires_at }) <= 1

\* C6: a redemption request passes the token check exactly when the token
\* exists, is unused and the time is strictly before its expiry; and the
\* expiry of a token is the time of the recovery request plus one hour.
C6_AcceptedIffUnusedAndBeforeExpiry ==
    [][ /\ \A value \in 1 .. MaxTokens, method \in {"GET", "POST"},
              p \in PasswordInputs, c \in PasswordInputs :
             ( /\ last'.op = "reset_password"
               /\ last'.target = value
               /\ reset_password_begin_req(value, method, p, c) ) =>
                 ( last'.outcome # "invalid_token"
                   <=> ( /\ value \in DOMAIN tokens
                         /\ ~tokens[value].used
                         /\ now < tokens[value].expires_at ) )
        /\ \A username_in \in UsernameInputs :
             ( /\ last'.op = "forgot_password"
               /\ last'.outcome = "pending"
               /\ forgot_password_begin_req(username_in) )
             => \E s \in DOMAIN reqs :
                    /\ reqs[s] = NoReq
                    /\ reqs'[s].kind = "forgot"
                    /\ reqs'[s].expires_at = now + 1
        /\ \A s \in DOMAIN reqs, sent \in BOOLEAN :
             ( last'.op = "forgot_password" /\ forgot_password_commit_req(s, sent) ) =>
                 tokens'[Len(tokens')].expires_at = reqs[s].expires_at ]_vars

\* C6 witness: a redemption of an unused token exactly at its expiry was refused.
C6_Witness ==
    /\ last.op = "reset_password"
    /\ last.outcome = "invalid_token"
    /\ last.target \in DOMAIN tokens
    /\ ~tokens[last.target].used
    /\ now = tokens[last.target].expires_at

\* The stored hash is a hash of this password.
HashesTo(password, pwhash) ==
    \E salt \in Salts : generate_password_hash(password, salt) = pwhash

\* C7: a login succeeds exactly when an account has the username, is active
\* and its stored hash is a hash of the supplied password; on success, and
\* only then, that account's id enters the session.
C7_AuthenticateIffActiveAndPasswordVerifies ==
    [][ \A username \in UsernameInputs, password \in LoginPasswords :
          ( last'.op = "admin_login" /\ admin_login_req(username, password) ) =>
              LET ok == \E i \in DOMAIN users :
                           /\ users[i].username = username
                           /\ users[i].is_active
                           /\ HashesTo(password, users[i].password_hash)
              IN  /\ ok <=> last'.outcome \in {"ok", "change_password_required"}
                  /\ ok => /\ users[last'.target].username = username
                           /\ sessions' = sessions \cup {last'.target}
                  /\ ~ok => sessions' = sessions ]_vars

\* C7 witness: a login naming a deactivated account was refused.
C7_Witness ==
    /\ last.op = "admin_login"
    /\ last.outcome = "invalid_credentials"
    /\ last.target \in DOMAIN users
    /\ ~users[last.target].is_active

\* C8: a toggle_user, change_user_role or delete_user request whose target is
\* the account making it changes no account, and when the caller passes the
\* decorator as a master admin (so the request reaches the operation) the
\* answer is the self-modification refusal.
C8_SelfModificationRefused ==
    [][ \A a \in sessions \cap DOMAIN users :
          ( /\ last'.op \in {"toggle_user", "delete_user", "change_user_role"}
            /\ \/ toggle_user_req(a, a)
               \/ delete_user_req(a, a)
               \/ \E new_role \in RoleInputs : change_user_role_req(a, a, new_role) )
          => /\ users' = users
             /\ last'.outcome \in GateRefusals \cup {"self_modification"}
             /\ (is_authenticated(a) /\ users[a].role = "master_admin")
                   => last'.outcome = "self_modification" ]_vars

\* C8 witness: a master admin asked to toggle, re-role or delete its own
\* account and was refused.
C8_Witness ==
    /\ last.op \in {"toggle_user", "change_user_role", "delete_user"}
    /\ last.actor = last.target
    /\ last.actor \in DOMAIN users
    /\ users[last.actor].role = "master_admin"
    /\ last.outcome = "self_modification"

\* C9: an administrative password change whose target is the account making
\* the request is refused and leaves every stored password hash as it was.
C9_AdminPasswordChangeOfSelfRefused ==
    [][ \A a \in sessions \cap DOMAIN users, p \in PasswordInputs, salt \in Salts :
          ( last'.op = "change_user_password" /\ change_user_password_req(a, a, p, salt) )
          => /\ last'.outcome \in GateRefusals \cup {"self_modification"}
             /\ users' = users ]_vars

\* C9 witness: a master admin asked for the administrative change of its own
\* password and was refused.
C9_Witness ==
    /\ last.op = "change_user_password"
    /\ last.actor = last.target
    /\ last.actor \in DOMAIN users
    /\ users[last.actor].role = "master_admin"
    /\ last.outcome = "self_modification"

\* C10: a request to an operation behind the manage-users or the
\* e-mail-configuration decorator passes the decorator only if the caller's
\* role at that moment is master_admin; a request to an operation behind the
\* incident decorator passes it for a logged-in caller of either role.
C10_CapabilitiesFollowCurrentRole ==
    [][ /\ ( last'.op \in ManageUsersOps \cup EmailConfigOps
             /\ last'.outcome \notin GateRefusals )
           => ( /\ last'.actor \in sessions \cap DOMAIN users
                /\ users[last'.actor].role = "master_admin" )
        /\ ( last'.op \in IncidentOps
             /\ is_authenticated(last'.actor)
             /\ users[last'.actor].role \in Roles )
           => last'.outcome = "ok" ]_vars

\* C10 witness: the account created as master admin at startup, since made an
\* incident manager, was refused the user-management page under the session
\* it had opened.
C10_Witness ==
    /\ last.op = "admin_users"
    /\ last.actor = 1
    /\ last.outcome = "denied"
    /\ 1 \in DOMAIN users
    /\ users[1].username = ADMIN_USERNAME
    /\ users[1].role = "incident_manager"

\* C11: a request that a permission decorator refuses (no login, or a role
\* without the capability) changes no account, no token, no incident and not
\* the e-mail configuration, and hands no message to the mail transport.
C11_DenyRunsNoBody ==
    [][ ( last'.op \in GatedWrites \cup GatedOps /\ last'.outcome \in GateRefusals )
        => ( /\ users' = users
             /\ tokens' = tokens
             /\ incidents' = incidents
             /\ email_config' = email_config
             /\ outbox' = {} ) ]_vars

\* C11 witness: an incident manager was refused the saving of the e-mail
\* configuration, and the configuration is the one a master admin saved.
C11_Witness ==
    /\ last.op = "save_email_config"
    /\ last.outcome = "denied"
    /\ last.actor \in DOMAIN users
    /\ users[last.actor].role = "incident_manager"
    /\ email_config # NoConfig

AddedOutcomes == {"ok", "ok_mail_failed"}

\* C12: add_user adds an account only when no account has the username, no
\* account has the e-mail address and the role is one of the two; it then
\* adds exactly one account, with that username, address and role and with
\* must_change_password set, and changes no other; every refusal leaves the
\* accounts as they were.  After every step (the first state holds one
\* account) no two accounts share a username and no two share an e-mail
\* address.
C12_CreateAccountKeepsHandlesUnique ==
    [][ /\ \A i, j \in DOMAIN users' :
             i # j => /\ users'[i].username # users'[j].username
                      /\ users'[i].email = NoEmail \/ users'[i].email # users'[j].email
        /\ ( last'.op = "add_user" /\ last'.outcome \notin AddedOutcomes ) => users' = users
        /\ ( last'.op = "add_user" /\ last'.outcome \in AddedOutcomes ) =>
            \A username_in \in UsernameInputs, email_in \in EmailInputs,
               role \in RoleInputs, password \in TemporaryPasswords, salt \in Salts,
               sent \in BOOLEAN :
              add_user_req(last'.actor, username_in, email_in, role, password, salt, sent) =>
                  /\ \A i \in DOMAIN users :
                        /\ users[i].username # strip(username_in)
                        /\ users[i].email # strip(email_in)
                        /\ users'[i] = users[i]
                  /\ role \in Roles
                  /\ DOMAIN users' = DOMAIN users \cup {last'.target}
                  /\ last'.target \notin DOMAIN users
                  /\ users'[last'.target].username = strip(username_in)
                  /\ users'[last'.target].email = strip(email_in)
                  /\ users'[last'.target].role = role
                  /\ users'[last'.target].must_change_password ]_vars

\* C12 witness: after an account was added, a request for another with the
\* same username was refused.
C12_Witness ==
    /\ last.op = "add_user"
    /\ last.outcome = "duplicate_username"
    /\ \E i \in DOMAIN users : users[i].must_change_password

PasswordSettingOps == {"change_password_required", "change_user_password"}

\* C13: after a mandatory change, a redemption of a reset token or an
\* administrative password change has succeeded, the account whose password
\* was set has must_change_password false.
C13_PasswordSetClearsForcedChange ==
    [][ /\ ( last'.op \in PasswordSettingOps /\ last'.outcome = "ok" )
           => ~users'[last'.target].must_change_password
        /\ ( last'.op = "reset_password" /\ last'.outcome = "ok" )
           => ~users'[tokens[last'.target].user_id].must_change_password ]_vars

ShortPasswords == { p \in PasswordInputs : Len(p) < MIN_PASSWORD_LENGTH }

\* C14: on each of the three paths a request whose new password has fewer
\* than six characters sets no password: it changes no account and no token
\* and, for a redemption, no commit is started for it; a redemption refused
\* for the length leaves its token valid.  No redemption in flight carries a
\* password of fewer than six characters.
C14_WeakPasswordRejectedAndNothingChanges ==
    [][ /\ last'.op = "change_password_required" =>
             \A p \in ShortPasswords, c \in PasswordInputs, salt \in Salts :
                change_password_required_req(last'.actor, p, c, salt)
                => ( last'.outcome # "ok" /\ users' = users /\ tokens' = tokens )
        /\ last'.op = "change_user_password" =>
             \A p \in ShortPasswords, salt \in Salts :
                change_user_password_req(last'.actor, last'.target, p, salt)
                => ( last'.outcome # "ok" /\ users' = users /\ tokens' = tokens )
        /\ ( last'.op = "reset_password" /\ reqs' # reqs ) =>
             \A s \in DOMAIN reqs :
                reqs'[s].kind = "reset" => Len(reqs'[s].password) >= MIN_PASSWORD_LENGTH
        /\ ( last'.op = "reset_password" /\ reqs' = reqs ) =>
             \A method \in {"GET", "POST"}, p \in ShortPasswords, c \in PasswordInputs :
                reset_password_begin_req(last'.target, method, p, c)
                => ( /\ last'.outcome \notin {"ok", "pending"}
                     /\ users' = users
                     /\ tokens' = tokens )
        /\ last'.outcome = "weak_password" =>
             ( /\ users' = users
               /\ tokens' = tokens
               /\ last'.op = "reset_password" =>
                      ( /\ ~tokens'[last'.target].used
                        /\ now' < tokens'[last'.target].expires_at ) ) ]_vars

\* C14 witness: a redemption was refused for the length of the password and
\* its token is still unused and unexpired.
C14_Witness ==
    /\ last.op = "reset_password"
    /\ last.outcome = "weak_password"
    /\ last.target \in DOMAIN tokens
    /\ is_valid(tokens[last.target])
    /\ users[tokens[last.target].user_id].must_change_password

\* C15: a step of a redemption either answers success, and then it has, in
\* that one step, marked the token used and stored a hash of the request's
\* password for the token's account, or it answers anything else, and then
\* it has changed no account and no token.
C15_RedemptionIsOneUnit ==
    [][ last'.op = "reset_password" =>
          IF last'.outcome = "ok"
          THEN /\ tokens'[last'.target].used
               /\ \E s \in DOMAIN reqs :
                     /\ reqs[s].kind = "reset"
                     /\ reqs[s].token = last'.target
                     /\ reqs'[s] = NoReq
                     /\ HashesTo(reqs[s].password,
                                 users'[tokens[last'.target].user_id].password_hash)
          ELSE users' = users /\ tokens' = tokens ]_vars

\* C15 witness: the commit of a redemption failed; the token is unused and
\* the account has the password it was added with.
C15_Witness ==
    /\ last.op = "reset_password"
    /\ last.outcome = "server_error"
    /\ last.target \in DOMAIN tokens
    /\ ~tokens[last.target].used
    /\ tokens[last.target].user_id = 2
    /\ users[2].password_hash = AddedAccount.password_hash

\* C16: the answer to a recovery request with a non-blank username is the
\* same whatever the store holds.  A username that names no account is
\* answered with the generic notice, so this says that every such request
\* is answered with the generic notice.
C16_RecoveryAnswerSameForEveryStore ==
    [][ ( /\ last'.op = "forgot_password"
          /\ last'.outcome \notin {"username_required", "pending"} )
        => last'.outcome = "generic_notice" ]_vars

\* C17: a recovery request goes on to create a token only when its username
\* names an account that exists, is active and has an e-mail address; any
\* other request is answered at once and changes no token.  The one token a
\* request creates belongs to that account, and tokens change in no other
\* way than by the invalidation of that account's unused ones.
C17_TokenOnlyForActiveAccountWithContact ==
    [][ last'.op = "forgot_password" =>
          /\ \A username_in \in UsernameInputs :
                forgot_password_begin_req(username_in) =>
                    LET i == Named(strip(username_in))
                        eligible == /\ i # 0
                                    /\ users[i].is_active
                                    /\ users[i].email # NoEmail
                    IN  /\ tokens' = tokens
                        /\ eligible <=> last'.outcome = "pending"
                        /\ eligible <=> reqs' # reqs
                        /\ eligible => \E s \in DOMAIN reqs : /\ reqs'[s].kind = "forgot"
                                                              /\ reqs[s] = NoReq
                                                              /\ reqs'[s].user_id = i
          /\ tokens' # tokens =>
                /\ Len(tokens') = Len(tokens) + 1
                /\ \E s \in DOMAIN reqs :
                      /\ reqs[s].kind = "forgot"
                      /\ reqs'[s] = NoReq
                      /\ tokens'[Len(tokens')].user_id = reqs[s].user_id
                      /\ \A t \in DOMAIN tokens :
                            \/ tokens'[t] = tokens[t]
                            \/ /\ tokens[t].user_id = reqs[s].user_id
                               /\ tokens'[t] = [tokens[t] EXCEPT !.used = TRUE] ]_vars

\* C17 witness: the admin holds a token, and a request naming the second
\* account, which is deactivated or has no address, got the generic notice.
C17_Witness ==
    /\ last.op = "forgot_password"
    /\ last.outcome = "generic_notice"
    /\ last.target = 2
    /\ tokens # <<>>
    /\ \A t \in DOMAIN tokens : tokens[t].user_id = 1

\* The answers of submit_incident that carry status 400
ValidationFailures == {"required_missing", "invalid_type", "invalid_datetime"}

\* The detail fields of the form that may be left blank
OptionalDetails ==
    {"threats_weapons", "medical_treatment", "law_enforcement_contacted",
     "police_report_id", "security_intervention", "incident_response",
     "contributing_factors"}

C19_LegacyDescriptionAccepted ==
    [][ ( /\ last'.op = "submit_incident"
          /\ last'.form.incident_type = <<>>
          /\ last'.form.incident_description = <<>>
          /\ strip(last'.form.description) # <<>>
          /\ strip(last'.form.location) # <<>>
          /\ strip(last'.form.persons_involved) # <<>>
          /\ ~fromisoformat(replace_T(last'.form.incident_datetime)).ValueError )
        => /\ last'.outcome = "ok"
           /\ Len(incidents') = Len(incidents) + 1
           /\ incidents'[Len(incidents')].reporter_name = strip(last'.form.reporter_name)
           /\ incidents'[Len(incidents')].location = strip(last'.form.location) ]_vars

\* C20: an accepted submission whose reporter name is absent or blank is
\* stored under the name Anonymous, with None in every optional detail it
\* left blank and with the server's clock as its submission time.
C20_BlankNameStoredAsAnonymous ==
    [][ ( /\ last'.op = "submit_incident"
          /\ last'.outcome = "ok"
          /\ strip(last'.form.reporter_name) = <<>> )
        => LET row == incidents'[last'.target]
               form == last'.form
           IN  /\ last'.target = Len(incidents) + 1
               /\ row.reporter_name = ANONYMOUS
               /\ \A f \in OptionalDetails :
                     strip(form[f]) = <<>> => row[f] = None
               /\ strip(form.law_enforcement_contacted) = <<>>
                     => row.law_enforcement = None
               /\ row.submitted_at = now ]_vars

\* C20 witness: after the clock has moved, a report with no name was stored.
C20_Witness ==
    /\ last.op = "submit_incident"
    /\ last.outcome = "ok"
    /\ last.form.reporter_name = <<0>>
    /\ last.form.threats_weapons = <<0>>
    /\ incidents[last.target].reporter_name = ANONYMOUS
    /\ incidents[last.target].threats_weapons = None
    /\ incidents[last.target].submitted_at = 1

\* C21: an accepted submission stores no reporter e-mail when the submitter
\* asked to remain anonymous and the supplied address otherwise; the
\* messages sent are those of a notification called with the supplied
\* address, anonymous or not, so a confirmation goes to that address.
C21_AnonymousEmailNotStoredButUsed ==
    [][ (last'.op = "submit_incident" /\ last'.outcome = "ok") =>
          LET form == last'.form
              supplied == strip_or_None(form.reporter_email)
          IN  /\ incidents'[last'.target].reporter_email =
                    (IF form.remain_anonymous = ON THEN None ELSE supplied)
              /\ \E accepted \in 0 .. 2 :
                    outbox' = IncidentMessages(supplied, accepted)
              /\ \A m \in outbox' : m.kind = "confirmation" =>
                    (supplied # None /\ m.to = supplied) ]_vars

\* C21 witness: an anonymous submission with an address was stored without
\* it and the confirmation went to that address.
C21_Witness ==
    /\ last.op = "submit_incident"
    /\ last.outcome = "ok"
    /\ last.form.remain_anonymous = ON
    /\ last.form.reporter_email = <<5, 3>>
    /\ incidents[last.target].reporter_email = None
    /\ Message("confirmation", <<5, 3>>) \in outbox

\* An incident without its one mutable field
WithoutCorrectiveActions(row) == [row EXCEPT !.corrective_actions = None]

\* No incident is removed, and none changes in anything but corrective_actions.
IncidentsKeepWhatWasSubmitted ==
    /\ Len(incidents') >= Len(incidents)
    /\ \A i \in DOMAIN incidents :
          WithoutCorrectiveActions(incidents'[i]) = WithoutCorrectiveActions(incidents[i])

\* C22 as stated: an update stores the text exactly as given and returns it,
\* and nothing else of any incident ever changes.
C22_UpdateStoresGivenText ==
    [][ /\ IncidentsKeepWhatWasSubmitted
        /\ (last'.op = "update_corrective_actions" /\ last'.outcome = "ok") =>
              /\ incidents'[last'.target].corrective_actions = last'.data.corrective_actions
              /\ last'.corrective_actions = last'.data.corrective_actions
              /\ \A i \in DOMAIN incidents : i # last'.target => incidents'[i] = incidents[i]
      ]_vars

\* C22, amended: an update stores the given text without its surrounding
\* blanks, or no text when nothing is left, in the corrective_actions of the
\* incident asked for and returns the stored text (empty for none); no other
\* incident changes, and no step changes anything else of any incident.
C22_UpdateStoresStrippedText ==
    [][ /\ IncidentsKeepWhatWasSubmitted
        /\ (last'.op = "update_corrective_actions" /\ last'.outcome = "ok") =>
              LET given == last'.data.corrective_actions
                  stored == incidents'[last'.target].corrective_actions
              IN  /\ stored = (IF strip(given) = <<>> THEN None ELSE strip(given))
                  /\ last'.corrective_actions = (IF stored = None THEN <<>> ELSE stored)
                  /\ \A i \in DOMAIN incidents :
                        i # last'.target => incidents'[i] = incidents[i]
        /\ (last'.op = "update_corrective_actions" /\ last'.outcome # "ok") =>
              incidents' = incidents
      ]_vars

\* C22 witness: the first incident has its text and the text of the second
\* one has just been cleared again.
C22_Witness ==
    /\ last.op = "update_corrective_actions"
    /\ last.outcome = "ok"
    /\ last.target = 2
    /\ last.data.corrective_actions = <<0>>
    /\ incidents[1].corrective_actions = <<9>>
    /\ incidents[2].corrective_actions = None
    /\ incidents[2].reporter_name = ANONYMOUS

\* text holds search somewhere, without regard to case
contains(text, search) ==
    /\ text # None
    /\ \E j \in 1 .. Len(text) - Len(search) + 1 :
          \A k \in 1 .. Len(search) : lower(text[j + k - 1]) = lower(search[k])

\* The free-text attributes of an incident: who reported, where, what
\* happened, who was involved, and the optional details
FreeTextFields ==
    {"reporter_name", "reporter_job_title", "reporter_email", "reporter_phone",
     "location", "incident_description", "persons_involved", "threats_weapons",
     "medical_treatment", "law_enforcement_contacted", "police_report_id",
     "security_intervention", "incident_response", "contributing_factors"}

\* The ids in a returned list
Returned(result) == { result[j] : j \in DOMAIN result }

\* The day a date parameter names; the dates asked for here are one digit
DayOf(text) == strip(text)[1]

IsDate(text) == Len(strip(text)) = 1 /\ strip(text)[1] \in 1 .. 9

\* C23: with a search text and no dates, the list holds exactly the
\* incidents that have the text, in any case, in one of their free-text
\* fields.
C23_SearchReturnsExactlyMatchingRecords ==
    [][ ( /\ last'.op = "get_incidents"
          /\ last'.outcome = "ok"
          /\ strip(last'.args.search) # <<>>
          /\ last'.args.start_date = <<>>
          /\ last'.args.end_date = <<>> )
        => Returned(last'.incidents) =
              { i \in DOMAIN incidents :
                  \E f \in FreeTextFields :
                      contains(incidents[i][f], strip(last'.args.search)) } ]_vars

\* C24: with no search text, the list holds exactly the incidents that
\* happened at or after midnight of the start date, when one is given, and
\* at or before 23:59:59 of the end date, when one is given; when both name
\* the same day, every incident listed happened on that day.
C24_DateRangeIsInclusiveOfBothDays ==
    [][ ( /\ last'.op = "get_incidents"
          /\ last'.outcome = "ok"
          /\ strip(last'.args.search) = <<>>
          /\ strip(last'.args.start_date) = <<>> \/ IsDate(last'.args.start_date)
          /\ strip(last'.args.end_date) = <<>> \/ IsDate(last'.args.end_date) )
        => LET D1 == last'.args.start_date
               D2 == last'.args.end_date
           IN  /\ Returned(last'.incidents) =
                     { i \in DOMAIN incidents :
                         /\ IsDate(D1) => incidents[i].incident_datetime >= 24 * DayOf(D1)
                         /\ IsDate(D2) => incidents[i].incident_datetime <= 24 * DayOf(D2) + 23 }
               /\ (IsDate(D1) /\ IsDate(D2) /\ DayOf(D1) = DayOf(D2)) =>
                     \A i \in Returned(last'.incidents) :
                         incidents[i].incident_datetime \div 24 = DayOf(D1) ]_vars

\* C24 witness: asked for day 2 alone, the list holds the incident of
\* midnight and the one of three o'clock and not the one of the next midnight.
C24_Witness ==
    /\ last.op = "get_incidents"
    /\ last.outcome = "ok"
    /\ last.args.search = <<>>
    /\ last.args.start_date = <<2>>
    /\ last.args.end_date = <<2>>
    /\ Returned(last.incidents) = {1, 2}
    /\ incidents[3].incident_datetime = 72

\* C25: a list is returned only for a sort field that is a column of the
\* incidents; a request with any other sort field is refused.
C25_UnknownSortFieldRejected ==
    [][ (last'.op = "get_incidents" /\ last'.outcome = "ok")
        => last'.args.sort_by \in IncidentColumns ]_vars

\* C26: with a search text that is empty or blank and no dates, the list
\* holds every incident stored.
C26_NoFilterReturnsEverything ==
    [][ ( /\ last'.op = "get_incidents"
          /\ last'.outcome = "ok"
          /\ strip(last'.args.search) = <<>>
          /\ strip(last'.args.start_date) = <<>>
          /\ strip(last'.args.end_date) = <<>> )
        => /\ Returned(last'.incidents) = DOMAIN incidents
           /\ Len(last'.incidents) = Len(incidents) ]_vars

\* C26 witness: a search for one blank listed the three incidents.
C26_Witness ==
    /\ last.op = "get_incidents"
    /\ last.outcome = "ok"
    /\ last.args.search = <<0>>
    /\ last.args.start_date = <<>>
    /\ last.args.end_date = <<>>
    /\ Len(last.incidents) = 3

\* C27: what submit_incident, add_user, forgot_password and
\* update_corrective_actions have committed is stored whatever became of the
\* messages: the new incident, the new account, the new token together with
\* the invalidation of the tokens the request found unused, and the new
\* corrective-actions text.
C27_FailedNotificationKeepsTheWrite ==
    [][ /\ (last'.op = "submit_incident" /\ last'.outcome = "ok") =>
              /\ Len(incidents') = Len(incidents) + 1
              /\ incidents'[last'.target].location = strip(last'.form.location)
        /\ (last'.op = "add_user" /\ last'.outcome = "ok_mail_failed") =>
              /\ outbox' = {}
              /\ last'.target \in DOMAIN users' \ DOMAIN users
              /\ users'[last'.target].is_active
        /\ (last'.op = "forgot_password" /\ last'.outcome = "send_failed") =>
              /\ outbox' = {}
              /\ Len(tokens') = Len(tokens) + 1
              /\ ~tokens'[last'.target].used
              /\ \E s \in DOMAIN reqs :
                    /\ reqs[s].kind = "forgot"
                    /\ reqs'[s] = NoReq
                    /\ tokens'[last'.target].user_id = reqs[s].user_id
                    /\ \A t \in reqs[s].invalidated : tokens'[t].used
        /\ (last'.op = "update_corrective_actions" /\ last'.outcome = "ok") =>
              incidents'[last'.target].corrective_actions =
                  strip_or_None(last'.data.corrective_actions)
      ]_vars

\* C27 witness: the e-mail with the second token was not sent; the token is
\* stored and the first one is used.
C27_Witness ==
    /\ last.op = "forgot_password"
    /\ last.outcome = "send_failed"
    /\ outbox = {}
    /\ Len(tokens) = 2
    /\ tokens[1].used
    /\ ~tokens[2].used
    /\ completed[1] = 0

\* C28: some account is active and has the role master_admin.
C28_SomeActiveMasterAdmin ==
    \E i \in DOMAIN users : users[i].is_active /\ users[i].role = "master_admin"

\* C29: a request to an operation behind a permission decorator, made under a
\* session whose account has since been deleted or deactivated, is refused by
\* the decorator.
C29_StaleSessionIsRefused ==
    [][ ( /\ last'.op \in GatedOps \cup GatedWrites
          /\ last'.actor \in sessions
          /\ ( \/ last'.actor \notin DOMAIN users
               \/ ~users[last'.actor].is_active ) )
        => last'.outcome \in GateRefusals ]_vars

\* C30: every unused, unexpired reset token names an account that exists.
C30_ValidTokenHasItsAccount ==
    \A t \in DOMAIN tokens :
        is_valid(tokens[t]) => tokens[t].user_id \in DOMAIN users

====
